---- MODULE Spec2Model ----
(***************************************************************************)
(* Golden-vector generators of the Sobel pipeline.                         *)
(*                                                                         *)
(*  - generate_golden_rtl_aware_v2.py : generate_vectors_rtl_optimized,    *)
(*    the loop-based model with the _d1/_d2 line-buffer stages (SpecOpt).  *)
(*  - generate_golden_vectors.py : SobelPipelineSimulator and the          *)
(*    class-based generate_vectors / main that drive it (SpecSim).         *)
(*                                                                         *)
(* Line memories and window rows are sequences indexed from 1, so Python   *)
(* index i is index i+1 here.                                              *)
(***************************************************************************)
EXTENDS Integers, Sequences, FiniteSets, TLC

VARIABLES width, height, seed, frame, opt, optHist, sim, gen, simHist, sim2

vars == <<width, height, seed, frame, opt, optHist, sim, gen, simHist, sim2>>

(***************************************************************************)
(* Bounds of the exploration.                                              *)
(***************************************************************************)
MaxWidth == 5

MaxHeight == 5

MaxSeed == 2

(***************************************************************************)
(* Bit-level helpers: Python's >>, <<, & and | on non-negative integers.   *)
(***************************************************************************)
Shr(x, n) == x \div (2 ^ n)

Shl(x, n) == x * (2 ^ n)

RECURSIVE BitAnd(_, _)
BitAnd(x, y) ==
    IF x = 0 \/ y = 0 THEN 0
    ELSE ((x % 2) * (y % 2)) + 2 * BitAnd(x \div 2, y \div 2)

RECURSIVE BitOr(_, _)
BitOr(x, y) ==
    IF x = 0 THEN y
    ELSE IF y = 0 THEN x
    ELSE (IF (x % 2) + (y % 2) > 0 THEN 1 ELSE 0) + 2 * BitOr(x \div 2, y \div 2)

Abs(x) == IF x < 0 THEN -x ELSE x

(***************************************************************************)
(* RGB565 helpers.                                                         *)
(***************************************************************************)
expand5to8_PlainShift(v5) == Shl(BitAnd(v5, 31), 3)

expand5to8(v5) == BitOr(Shl(BitAnd(v5, 31), 3), Shr(BitAnd(v5, 31), 2))

expand6to8(v6) == BitOr(Shl(BitAnd(v6, 63), 2), Shr(BitAnd(v6, 63), 4))

rgb565_to_rgb8(rgb) ==
    LET r5 == BitAnd(Shr(rgb, 11), 31)
        g6 == BitAnd(Shr(rgb, 5), 63)
        b5 == BitAnd(rgb, 31)
    IN  <<expand5to8(r5), expand6to8(g6), expand5to8(b5)>>

rgb565_to_gray8_Shift7(rgb) ==
    LET c == rgb565_to_rgb8(rgb)
        weighted == (77 * c[1]) + (151 * c[2]) + (28 * c[3])
    IN  BitAnd(Shr(weighted, 7), 255)

rgb565_to_gray8(rgb) ==
    LET c == rgb565_to_rgb8(rgb)
        weighted == (77 * c[1]) + (151 * c[2]) + (28 * c[3])
    IN  BitAnd(Shr(weighted, 8), 255)

pack_edge_to_rgb565_GreenShift3(edge8) ==
    LET r5 == BitAnd(Shr(edge8, 3), 31)
        g6 == BitAnd(Shr(edge8, 3), 63)
        b5 == BitAnd(Shr(edge8, 3), 31)
    IN  BitOr(BitOr(Shl(r5, 11), Shl(g6, 5)), b5)

pack_edge_to_rgb565(edge8) ==
    LET r5 == BitAnd(Shr(edge8, 3), 31)
        g6 == BitAnd(Shr(edge8, 2), 63)
        b5 == BitAnd(Shr(edge8, 3), 31)
    IN  BitOr(BitOr(Shl(r5, 11), Shl(g6, 5)), b5)

(***************************************************************************)
(* Sobel helpers.  A window is <<top, mid, bot>>, each row a 3-sequence.   *)
(***************************************************************************)
sobel_gx_gy_TripleWeight(win) ==
    << (0 - win[1][1]) + win[1][3] - (3 * win[2][1]) + (3 * win[2][3])
          - win[3][1] + win[3][3],
       (0 - win[1][1]) - (3 * win[1][2]) - win[1][3]
          + win[3][1] + (3 * win[3][2]) + win[3][3] >>

sobel_gx_gy(win) ==
    LET p0 == win[1][1]
        p1 == win[1][2]
        p2 == win[1][3]
        p3 == win[2][1]
        p5 == win[2][3]
        p6 == win[3][1]
        p7 == win[3][2]
        p8 == win[3][3]
    IN  << (0 - p0) + p2 - (2 * p3) + (2 * p5) - p6 + p8,
           (0 - p0) - (2 * p1) - p2 + p6 + (2 * p7) + p8 >>

gradients_to_edge_mag_Shift2(gx, gy) ==
    LET s == Shr(Abs(gx) + Abs(gy), 2)
    IN  IF s > 255 THEN 255 ELSE s

gradients_to_edge_mag(gx, gy) ==
    LET s == Shr(Abs(gx) + Abs(gy), 3)
    IN  IF s > 255 THEN 255 ELSE s

sobel_edge8(win) ==
    LET g == sobel_gx_gy(win)
    IN  gradients_to_edge_mag(g[1], g[2])

(***************************************************************************)
(* The frame.  random.Random(seed).getrandbits(16) is a deterministic      *)
(* stream of 16-bit words fixed by the seed; it is modelled by a 16-bit    *)
(* linear congruential stream, one word per call.                          *)
(***************************************************************************)
RECURSIVE getrandbits(_, _)
getrandbits(s, i) ==
    IF i = 0 THEN ((s * 25173) + 13849) % 65536
    ELSE ((getrandbits(s, i - 1) * 25173) + 13849) % 65536

MakeFrame(w, h, s) == [i \in 1..(w * h) |-> getrandbits(s, i)]

\* Luma of frame pixel (r, c), 0-based as in the generators.
Luma(r, c) == rgb565_to_gray8(frame[(r * width) + c + 1])

\* The 3x3 block of frame lumas whose bottom-right cell is (r, c).
FrameWindow(r, c) ==
    [i \in 1..3 |-> [j \in 1..3 |-> Luma(r - 3 + i, c - 3 + j)]]

Zeros(n) == [i \in 1..n |-> 0]

\* gray_stream = [rgb565_to_gray8(px) for px in frame]
gray_stream == [i \in 1..Len(frame) |-> rgb565_to_gray8(frame[i])]

(***************************************************************************)
(* generate_vectors_rtl_optimized (generate_golden_rtl_aware_v2.py).       *)
(* opt holds the function's local variables; optHist records, beside the   *)
(* code's state, which input pixel (r, c) travels in each pipeline stage   *)
(* and the log of appends to expected.                                     *)
(***************************************************************************)
NoPix == <<-1, -1>>

OptInitState(w) ==
    [ pixel_valid_d1 |-> FALSE, pixel_valid_d2 |-> FALSE,
      col_addr_d1 |-> 0, col_addr_d2 |-> 0,
      row_count_d1 |-> 0, row_count_d2 |-> 0,
      pixel_in_d1 |-> 0, pixel_in_d2 |-> 0,
      window_valid_sobel |-> FALSE, edge_sobel |-> 0,
      window_valid_edge |-> FALSE, edge_edge |-> 0,
      line0_mem |-> Zeros(w), line1_mem |-> Zeros(w), line2_mem |-> Zeros(w),
      line0_q |-> 0, line1_q |-> 0, line2_q |-> 0,
      top_row |-> <<0, 0, 0>>, mid_row |-> <<0, 0, 0>>, bot_row |-> <<0, 0, 0>>,
      col_addr |-> 0, row_count |-> 0, current_row |-> 0,
      expected |-> <<>>, idx |-> 0, cycle |-> 0,
      pc |-> "loop", files |-> "none", printed_count |-> 0 ]

OptHistInit ==
    [ px_d1 |-> NoPix, px_d2 |-> NoPix, px_sobel |-> NoPix, px_edge |-> NoPix,
      emitted |-> <<>>, fired |-> 0 ]

\* line 104: total_cycles = height * width + 4
total_cycles_ThreeDrain == (height * width) + 3

total_cycles == (height * width) + 4

\* line 150: window_valid = row_count_d2 >= 3 and col_addr_d2 >= 2
OptWindowValid_RowGe2(s) == s.row_count_d2 >= 2 /\ s.col_addr_d2 >= 2

OptWindowValid(s) == s.row_count_d2 >= 3 /\ s.col_addr_d2 >= 2

\* lines 137-147: shift each window row left and append the new column.
OptShiftWindow_MidIntoTop(s) ==
    << <<s.top_row[2], s.top_row[3], s.line1_q>>,
       <<s.mid_row[2], s.mid_row[3], s.line1_q>>,
       <<s.bot_row[2], s.bot_row[3], s.pixel_in_d2>> >>

OptShiftWindow(s) ==
    << <<s.top_row[2], s.top_row[3], s.line2_q>>,
       <<s.mid_row[2], s.mid_row[3], s.line1_q>>,
       <<s.bot_row[2], s.bot_row[3], s.pixel_in_d2>> >>

\* lines 162-165: registered BRAM read at the d1 address.
OptBramRead(s) ==
    IF s.pixel_valid_d1
    THEN <<s.line0_mem[s.col_addr_d1 + 1], s.line1_mem[s.col_addr_d1 + 1],
           s.line2_mem[s.col_addr_d1 + 1]>>
    ELSE <<s.line0_q, s.line1_q, s.line2_q>>

\* lines 168-171: cascade write line2 <- line1 <- line0 <- pixel_in.
OptBramWrite_Line0First(s, pixel_valid, pixel_in) ==
    IF pixel_valid
    THEN << [s.line0_mem EXCEPT ![s.col_addr + 1] = pixel_in],
            [s.line1_mem EXCEPT ![s.col_addr + 1] = pixel_in],
            [s.line2_mem EXCEPT ![s.col_addr + 1] = pixel_in] >>
    ELSE <<s.line0_mem, s.line1_mem, s.line2_mem>>

OptBramWrite(s, pixel_valid, pixel_in) ==
    IF pixel_valid
    THEN << [s.line0_mem EXCEPT ![s.col_addr + 1] = pixel_in],
            [s.line1_mem EXCEPT ![s.col_addr + 1] = s.line0_mem[s.col_addr + 1]],
            [s.line2_mem EXCEPT ![s.col_addr + 1] = s.line1_mem[s.col_addr + 1]] >>
    ELSE <<s.line0_mem, s.line1_mem, s.line2_mem>>

\* lines 106-189: one iteration of the cycle loop.
OptCycleBody(s) ==
    LET pixel_valid == s.cycle < height * width
        r == IF pixel_valid THEN s.cycle \div width ELSE height - 1
        c == IF pixel_valid THEN s.cycle % width ELSE 0
        pixel_in == IF pixel_valid THEN gray_stream[s.idx + 1] ELSE 0
        row_count == IF pixel_valid THEN r ELSE s.row_count
        win == OptShiftWindow(s)
        window_valid == s.pixel_valid_d2 /\ OptWindowValid(s)
        q == OptBramRead(s)
        mem == OptBramWrite(s, pixel_valid, pixel_in)
    IN  [ s EXCEPT
            !.idx = IF pixel_valid THEN s.idx + 1 ELSE s.idx,
            !.current_row = IF pixel_valid THEN r ELSE s.current_row,
            !.row_count = row_count,
            !.expected = IF s.window_valid_edge
                         THEN Append(s.expected, pack_edge_to_rgb565(s.edge_edge))
                         ELSE s.expected,
            !.window_valid_edge = s.window_valid_sobel,
            !.edge_edge = s.edge_sobel,
            !.top_row = IF s.pixel_valid_d2 THEN win[1] ELSE s.top_row,
            !.mid_row = IF s.pixel_valid_d2 THEN win[2] ELSE s.mid_row,
            !.bot_row = IF s.pixel_valid_d2 THEN win[3] ELSE s.bot_row,
            !.edge_sobel = IF window_valid THEN sobel_edge8(win) ELSE s.edge_sobel,
            !.window_valid_sobel = window_valid,
            !.line0_q = q[1],
            !.line1_q = q[2],
            !.line2_q = q[3],
            !.line0_mem = mem[1],
            !.line1_mem = mem[2],
            !.line2_mem = mem[3],
            !.pixel_in_d2 = s.pixel_in_d1,
            !.pixel_in_d1 = pixel_in,
            !.pixel_valid_d2 = s.pixel_valid_d1,
            !.pixel_valid_d1 = pixel_valid,
            !.col_addr_d2 = s.col_addr_d1,
            !.col_addr_d1 = s.col_addr,
            !.row_count_d2 = s.row_count_d1,
            !.row_count_d1 = row_count,
            !.col_addr = IF pixel_valid
                         THEN (IF c = width - 1 THEN 0 ELSE c + 1)
                         ELSE s.col_addr,
            !.cycle = s.cycle + 1 ]

\* The pixel travelling in each stage, advanced with the code's registers.
OptHistBody(s, hst) ==
    LET pixel_valid == s.cycle < height * width
        here == IF pixel_valid THEN <<s.cycle \div width, s.cycle % width>> ELSE NoPix
        window_valid == s.pixel_valid_d2 /\ OptWindowValid(s)
    IN  [ px_d1 |-> here,
          px_d2 |-> hst.px_d1,
          px_sobel |-> IF window_valid THEN hst.px_d2 ELSE NoPix,
          px_edge |-> hst.px_sobel,
          emitted |-> IF s.window_valid_edge
                      THEN Append(hst.emitted,
                                  [word |-> pack_edge_to_rgb565(s.edge_edge),
                                   pix |-> hst.px_edge, cycle |-> s.cycle])
                      ELSE hst.emitted,
          fired |-> IF window_valid THEN hst.fired + 1 ELSE hst.fired ]

OptInit ==
    /\ width \in 1..MaxWidth
    /\ height \in 1..MaxHeight
    /\ seed \in 0..MaxSeed
    /\ frame = MakeFrame(width, height, seed)
    /\ opt = OptInitState(width)
    /\ optHist = OptHistInit
    /\ sim = [pc |-> "off"]
    /\ gen = [pc |-> "off"]
    /\ simHist = [pc |-> "off"]
    /\ sim2 = [pc |-> "off"]

\* for cycle in range(total_cycles): one valid or drain cycle.
OptCycle ==
    /\ opt.pc = "loop"
    /\ opt.cycle < total_cycles
    /\ opt' = OptCycleBody(opt)
    /\ optHist' = OptHistBody(opt, optHist)
    /\ UNCHANGED <<width, height, seed, frame, sim, gen, simHist, sim2>>

\* The loop is exhausted: return frame, expected; main writes both files
\* and prints the observed count beside (height-2)*(width-2).
OptMain ==
    /\ opt.pc = "loop"
    /\ opt.cycle >= total_cycles
    /\ opt' = [opt EXCEPT !.pc = "done", !.files = "written",
                          !.printed_count = (height - 2) * (width - 2)]
    /\ UNCHANGED <<width, height, seed, frame, optHist, sim, gen, simHist, sim2>>

OptNext == OptCycle \/ OptMain

SpecOpt == OptInit /\ [][OptNext]_vars

(***************************************************************************)
(* SobelPipelineSimulator (generate_golden_vectors.py).  A simulator is a  *)
(* record of the instance attributes; step is an operator from (self,      *)
(* href, rgb_pixel) to the next attributes and the returned outputs.       *)
(***************************************************************************)
None == <<"None">>

\* self.max_row = (1 << 16) - 1
max_row == 65535

\* self.flush_threshold = (width * 2) + 1
flush_threshold_ThreeRows(w) == (w * 3) + 1

flush_threshold_OneMore(w) == (w * 2) + 2

flush_threshold(w) == (w * 2) + 1

\* __init__ followed by reset().
SimNew(w, debug) ==
    [ width |-> w, debug_enabled |-> debug,
      window_debug |-> IF debug THEN <<>> ELSE None, coord_fifo |-> <<>>,
      line0 |-> Zeros(w), line1 |-> Zeros(w), line2 |-> Zeros(w),
      write_addr |-> 0, write_addr_d0 |-> 0, write_addr_d1 |-> 0,
      col_addr |-> 0, row_count |-> 0,
      pixel_valid_d0 |-> FALSE, pixel_valid_d1 |-> FALSE,
      col_addr_d0 |-> 0, col_addr_d1 |-> 0,
      row_count_d0 |-> 0, row_count_d1 |-> 0,
      pixel_in_d0 |-> 0, pixel_in_d1 |-> 0,
      line0_q_reg |-> 0, line1_q_reg |-> 0, line2_q_reg |-> 0,
      line0_q_d |-> 0, line1_q_d |-> 0, line2_q_d |-> 0,
      top_row |-> <<0, 0, 0>>, mid_row |-> <<0, 0, 0>>, bot_row |-> <<0, 0, 0>>,
      prefill_active |-> TRUE, fill_count |-> 0,
      gray_valid |-> FALSE, gray_pixel |-> 0,
      window_valid |-> FALSE, sobel_valid |-> FALSE,
      gx |-> 0, gy |-> 0,
      edge_valid |-> FALSE, edge_magnitude |-> 0 ]

\* lines 94-139: SobelPipelineSimulator.reset, the attributes after the call.
reset_KeepsCoordFifo(self) ==
    [ SimNew(self.width, self.debug_enabled) EXCEPT
        !.coord_fifo = self.coord_fifo,
        !.window_debug = IF self.window_debug # None THEN <<>>
                         ELSE self.window_debug ]

reset(self) ==
    [ self EXCEPT
        !.line0 = Zeros(self.width), !.line1 = Zeros(self.width),
        !.line2 = Zeros(self.width),
        !.write_addr = 0, !.write_addr_d0 = 0, !.write_addr_d1 = 0,
        !.col_addr = 0, !.row_count = 0,
        !.pixel_valid_d0 = FALSE, !.pixel_valid_d1 = FALSE,
        !.col_addr_d0 = 0, !.col_addr_d1 = 0,
        !.row_count_d0 = 0, !.row_count_d1 = 0,
        !.pixel_in_d0 = 0, !.pixel_in_d1 = 0,
        !.line0_q_reg = 0, !.line1_q_reg = 0, !.line2_q_reg = 0,
        !.line0_q_d = 0, !.line1_q_d = 0, !.line2_q_d = 0,
        !.top_row = <<0, 0, 0>>, !.mid_row = <<0, 0, 0>>,
        !.bot_row = <<0, 0, 0>>,
        !.prefill_active = TRUE, !.fill_count = 0,
        !.gray_valid = FALSE, !.gray_pixel = 0,
        !.window_valid = FALSE, !.sobel_valid = FALSE,
        !.gx = 0, !.gy = 0,
        !.edge_valid = FALSE, !.edge_magnitude = 0,
        !.coord_fifo = <<>>,
        !.window_debug = IF self.window_debug # None THEN <<>>
                         ELSE self.window_debug ]

\* coord_fifo.popleft(): the element taken and the remaining queue.
popleft_TakesNewest(fifo) == <<fifo[Len(fifo)], SubSeq(fifo, 1, Len(fifo) - 1)>>

popleft(fifo) == <<Head(fifo), Tail(fifo)>>

\* lines 146-150: the outputs registered by the previous cycle.
StepOutputs(self) ==
    IF self.edge_valid
    THEN << << pack_edge_to_rgb565(self.edge_magnitude),
               IF self.coord_fifo # <<>> THEN popleft(self.coord_fifo)[1] ELSE None >> >>
    ELSE <<>>

\* lines 208-213
window_valid_next_NoColCheck(self) ==
    /\ self.pixel_valid_d1
    /\ self.row_count_d1 >= 2
    /\ ~self.prefill_active

window_valid_next(self) ==
    /\ self.pixel_valid_d1
    /\ self.row_count_d1 >= 2
    /\ self.col_addr_d1 >= 1
    /\ ~self.prefill_active

\* line 277: edge_valid_next = sobel_valid_out
edge_valid_next_SkipsSobelStage(self) == self.window_valid

edge_valid_next(self) == self.sobel_valid

\* lines 145-150 and 215-219: pop for the emitted output, then tag the new window.
StepCoordFifo_OnlyWhenDebug(self) ==
    LET popped == IF self.edge_valid /\ self.coord_fifo # <<>>
                  THEN popleft(self.coord_fifo)[2] ELSE self.coord_fifo
    IN  IF window_valid_next(self) /\ self.window_debug # None
        THEN Append(popped, <<self.row_count_d1, self.col_addr_d1>>)
        ELSE popped

StepCoordFifo_NoPop(self) ==
    IF window_valid_next(self)
    THEN Append(self.coord_fifo, <<self.row_count_d1, self.col_addr_d1>>)
    ELSE self.coord_fifo

StepCoordFifo(self) ==
    LET popped == IF self.edge_valid /\ self.coord_fifo # <<>>
                  THEN popleft(self.coord_fifo)[2] ELSE self.coord_fifo
    IN  IF window_valid_next(self)
        THEN Append(popped, <<self.row_count_d1, self.col_addr_d1>>)
        ELSE popped

\* lines 195-206: next window rows.
StepWindowRows_NoPrefillGate(self) ==
    IF self.pixel_valid_d1
    THEN << <<self.top_row[2], self.top_row[3], self.line2_q_d>>,
            <<self.mid_row[2], self.mid_row[3], self.line1_q_d>>,
            <<self.bot_row[2], self.bot_row[3], self.pixel_in_d1>> >>
    ELSE <<self.top_row, self.mid_row, self.bot_row>>

StepWindowRows(self) ==
    IF self.pixel_valid_d1
    THEN IF self.prefill_active
         THEN << <<0, 0, 0>>, <<0, 0, 0>>, <<0, 0, 0>> >>
         ELSE << <<self.top_row[2], self.top_row[3], self.line2_q_d>>,
                 <<self.mid_row[2], self.mid_row[3], self.line1_q_d>>,
                 <<self.bot_row[2], self.bot_row[3], self.pixel_in_d1>> >>
    ELSE <<self.top_row, self.mid_row, self.bot_row>>

\* line 177: the word written into line1 when pixel_valid_d0 is set.
line1_din(self) ==
    IF self.prefill_active /\ self.row_count_d0 = 0 THEN 0 ELSE self.line0_q_d

\* line 178: the word written into line2 when pixel_valid_d1 is set.
line2_din(self) ==
    IF self.prefill_active /\ self.row_count_d1 <= 1 THEN 0 ELSE self.line1_q_d

\* lines 162-185: line-memory writes of the cycle.
StepLineMems(self) ==
    LET wad0 == self.write_addr % self.width
        wad1 == self.write_addr_d0 % self.width
        wad2 == self.write_addr_d1 % self.width
    IN  << IF self.gray_valid
           THEN [self.line0 EXCEPT ![wad0 + 1] = self.gray_pixel] ELSE self.line0,
           IF self.pixel_valid_d0
           THEN [self.line1 EXCEPT ![wad1 + 1] = line1_din(self)] ELSE self.line1,
           IF self.pixel_valid_d1
           THEN [self.line2 EXCEPT ![wad2 + 1] = line2_din(self)] ELSE self.line2 >>

\* lines 232-238: the second delay stage latches the first when pixel_valid_d0.
DelayStage2_FromUndelayed(self) ==
    IF self.pixel_valid_d0
    THEN [col_addr |-> self.col_addr, row_count |-> self.row_count,
          pixel_in |-> self.gray_pixel]
    ELSE [col_addr |-> self.col_addr_d1, row_count |-> self.row_count_d1,
          pixel_in |-> self.pixel_in_d1]

DelayStage2(self) ==
    IF self.pixel_valid_d0
    THEN [col_addr |-> self.col_addr_d0, row_count |-> self.row_count_d0,
          pixel_in |-> self.pixel_in_d0]
    ELSE [col_addr |-> self.col_addr_d1, row_count |-> self.row_count_d1,
          pixel_in |-> self.pixel_in_d1]

\* line 244: if self.col_addr == self.width - 1
AddrWrap_AtWidth(self) == self.col_addr = self.width

AddrWrap(self) == self.col_addr = self.width - 1

\* lines 141-319: SobelPipelineSimulator.step, the attributes after the call.
StepState(self, href, rgb_pixel) ==
    LET gray_valid_in == self.gray_valid
        gray_pixel_in == self.gray_pixel
        window_valid_out == self.window_valid
        current_window == <<self.top_row, self.mid_row, self.bot_row>>
        sobel_valid_out == self.sobel_valid
        addr0 == self.col_addr % self.width
        addr1 == self.col_addr_d0 % self.width
        addr2 == self.col_addr_d1 % self.width
        mems == StepLineMems(self)
        rows == StepWindowRows(self)
        wrap == AddrWrap(self)
        write_addr_next ==
            IF gray_valid_in
            THEN (IF wrap THEN 0 ELSE (self.write_addr + 1) % self.width)
            ELSE self.write_addr
        col_addr_next ==
            IF gray_valid_in
            THEN (IF wrap THEN 0 ELSE self.col_addr + 1)
            ELSE self.col_addr
        row_count_next ==
            IF gray_valid_in /\ wrap /\ self.row_count < max_row
            THEN self.row_count + 1 ELSE self.row_count
        write_addr_d0_next == IF gray_valid_in THEN self.write_addr ELSE self.write_addr_d0
        write_addr_d1_next == IF self.pixel_valid_d0 THEN self.write_addr_d0 ELSE self.write_addr_d1
        leaving == self.fill_count >= flush_threshold(self.width) - 1
        g == IF window_valid_out THEN sobel_gx_gy(current_window) ELSE <<0, 0>>
    IN  [ self EXCEPT
            !.coord_fifo = StepCoordFifo(self),
            !.window_debug = IF window_valid_next(self) /\ self.window_debug # None
                             THEN Append(self.window_debug,
                                         <<self.row_count_d1, self.col_addr_d1>>)
                             ELSE self.window_debug,
            !.line0 = mems[1],
            !.line1 = mems[2],
            !.line2 = mems[3],
            !.gray_valid = href,
            !.gray_pixel = rgb565_to_gray8(rgb_pixel),
            !.write_addr = write_addr_next,
            !.write_addr_d0 = write_addr_d0_next % self.width,
            !.write_addr_d1 = write_addr_d1_next % self.width,
            !.col_addr = col_addr_next,
            !.row_count = row_count_next,
            !.pixel_valid_d0 = gray_valid_in,
            !.pixel_valid_d1 = self.pixel_valid_d0,
            !.col_addr_d0 = IF gray_valid_in THEN self.col_addr ELSE self.col_addr_d0,
            !.row_count_d0 = IF gray_valid_in THEN self.row_count ELSE self.row_count_d0,
            !.pixel_in_d0 = IF gray_valid_in THEN gray_pixel_in ELSE self.pixel_in_d0,
            !.col_addr_d1 = DelayStage2(self).col_addr,
            !.row_count_d1 = DelayStage2(self).row_count,
            !.pixel_in_d1 = DelayStage2(self).pixel_in,
            !.line0_q_reg = self.line0[addr0 + 1],
            !.line1_q_reg = self.line1[addr1 + 1],
            !.line2_q_reg = self.line2[addr2 + 1],
            !.line0_q_d = IF self.pixel_valid_d0 THEN self.line0_q_reg ELSE self.line0_q_d,
            !.line1_q_d = IF self.pixel_valid_d0 THEN self.line1_q_reg ELSE self.line1_q_d,
            !.line2_q_d = IF self.pixel_valid_d0 THEN self.line2_q_reg ELSE self.line2_q_d,
            !.top_row = rows[1],
            !.mid_row = rows[2],
            !.bot_row = rows[3],
            !.prefill_active = IF self.prefill_active /\ gray_valid_in /\ leaving
                               THEN FALSE ELSE self.prefill_active,
            !.fill_count = IF self.prefill_active /\ gray_valid_in /\ ~leaving
                           THEN self.fill_count + 1 ELSE self.fill_count,
            !.window_valid = window_valid_next(self),
            !.sobel_valid = window_valid_out,
            !.gx = g[1],
            !.gy = g[2],
            !.edge_valid = edge_valid_next(self),
            !.edge_magnitude = IF sobel_valid_out
                               THEN gradients_to_edge_mag(self.gx, self.gy) ELSE 0 ]

step(self, href, rgb_pixel) ==
    [ self |-> StepState(self, href, rgb_pixel), outputs |-> StepOutputs(self) ]


(***************************************************************************)
(* The class-based generate_vectors and main.  gen holds the locals of     *)
(* generate_vectors, the control position and the files main has written;  *)
(* simHist numbers the step calls and logs what each returned.             *)
(***************************************************************************)
\* for _ in range(2): idle steps after every row
RowIdleSteps == 2

\* for _ in range(200): idle steps after the frame
DrainSteps == 200

\* line 354: expected_count = (height - 2) * (width - 1)
expected_count == (height - 2) * (width - 1)

\* line 355: if len(expected) != expected_count: raise RuntimeError
CountCheckFails_Never(g) == FALSE

CountCheckFails(g) == Len(g.expected) # expected_count

RECURSIVE Values(_)
Values(outs) == IF outs = <<>> THEN <<>> ELSE <<Head(outs)[1]>> \o Values(Tail(outs))

\* The signals the delay registers follow, as they stand before a step call.
Signals(self) ==
    [ gray_valid |-> self.gray_valid, col_addr |-> self.col_addr,
      row_count |-> self.row_count, gray_pixel |-> self.gray_pixel,
      pixel_valid_d0 |-> self.pixel_valid_d0 ]

SimHistInit(self) ==
    [ step_no |-> 0, presented |-> <<>>, returned |-> <<>>, tagged |-> <<>>,
      consumed |-> 0, prev1 |-> Signals(self), prev2 |-> Signals(self) ]

\* The step calls so far: their number, the call that presented each pixel
\* (in frame order), every (value, coord) pair returned, with its call, the
\* number of valid gray samples the calls consumed, the signals as they
\* stood before the last call (prev1) and before the call before it (prev2),
\* and every window that was made valid, with its tag.
SimHistAfter(hst, self, href, outputs) ==
    [ step_no |-> hst.step_no + 1,
      tagged |-> IF window_valid_next(self)
                 THEN Append(hst.tagged,
                             [ coord |-> <<self.row_count_d1, self.col_addr_d1>>,
                               win |-> StepWindowRows(self) ])
                 ELSE hst.tagged,
      consumed |-> IF self.gray_valid THEN hst.consumed + 1 ELSE hst.consumed,
      prev1 |-> Signals(self),
      prev2 |-> hst.prev1,
      presented |-> IF href THEN Append(hst.presented, hst.step_no) ELSE hst.presented,
      returned |-> hst.returned \o
          [i \in 1..Len(outputs) |->
              [value |-> outputs[i][1], coord |-> outputs[i][2],
               step_no |-> hst.step_no]] ]

SimInit ==
    /\ width \in 1..MaxWidth
    /\ height \in 1..MaxHeight
    /\ seed \in 0..MaxSeed
    /\ frame = MakeFrame(width, height, seed)
    /\ \E debug \in BOOLEAN : sim = SimNew(width, debug)
    /\ gen = [ pc |-> "pixels", row |-> 0, col |-> 0, k |-> 0, idx |-> 0,
               last_pixel |-> 0, expected |-> <<>>, written |-> {} ]
    /\ simHist = SimHistInit(sim)
    /\ opt = [pc |-> "off"]
    /\ optHist = [pc |-> "off"]
    /\ sim2 = [pc |-> "off"]

\* lines 339-344: sim.step(True, rgb) for the next pixel of the row.
GenPixelStep ==
    /\ gen.pc = "pixels"
    /\ LET rgb == frame[gen.idx + 1]
           res == step(sim, TRUE, rgb)
           lastcol == gen.col + 1 = width
       IN  /\ sim' = res.self
           /\ gen' = [ gen EXCEPT
                         !.idx = gen.idx + 1,
                         !.last_pixel = rgb,
                         !.expected = gen.expected \o Values(res.outputs),
                         !.col = IF lastcol THEN 0 ELSE gen.col + 1,
                         !.k = 0,
                         !.pc = IF lastcol THEN "idle" ELSE "pixels" ]
           /\ simHist' = SimHistAfter(simHist, sim, TRUE, res.outputs)
    /\ UNCHANGED <<width, height, seed, frame, opt, optHist, sim2>>

\* lines 346-348: two sim.step(False, last_pixel) calls after the row.
GenRowIdleStep ==
    /\ gen.pc = "idle"
    /\ LET res == step(sim, FALSE, gen.last_pixel)
           lastidle == gen.k + 1 = RowIdleSteps
           lastrow == gen.row + 1 = height
       IN  /\ sim' = res.self
           /\ gen' = [ gen EXCEPT
                         !.expected = gen.expected \o Values(res.outputs),
                         !.k = IF lastidle THEN 0 ELSE gen.k + 1,
                         !.row = IF lastidle THEN gen.row + 1 ELSE gen.row,
                         !.pc = IF lastidle
                                THEN (IF lastrow THEN "drain" ELSE "pixels")
                                ELSE "idle" ]
           /\ simHist' = SimHistAfter(simHist, sim, FALSE, res.outputs)
    /\ UNCHANGED <<width, height, seed, frame, opt, optHist, sim2>>

\* lines 350-352: 200 sim.step(False, last_pixel) calls after the frame.
GenDrainStep ==
    /\ gen.pc = "drain"
    /\ LET res == step(sim, FALSE, gen.last_pixel)
           lastdrain == gen.k + 1 = DrainSteps
       IN  /\ sim' = res.self
           /\ gen' = [ gen EXCEPT
                         !.expected = gen.expected \o Values(res.outputs),
                         !.k = gen.k + 1,
                         !.pc = IF lastdrain THEN "check" ELSE "drain" ]
           /\ simHist' = SimHistAfter(simHist, sim, FALSE, res.outputs)
    /\ UNCHANGED <<width, height, seed, frame, opt, optHist, sim2>>

\* lines 354-356: the count check fails; RuntimeError leaves generate_vectors
\* and main (line 392) before anything is written.
GenRaise ==
    /\ gen.pc = "check"
    /\ CountCheckFails(gen)
    /\ gen' = [gen EXCEPT !.pc = "raised"]
    /\ UNCHANGED <<width, height, seed, frame, sim, simHist, opt, optHist, sim2>>

\* line 376: return frame, expected
GenReturn ==
    /\ gen.pc = "check"
    /\ ~CountCheckFails(gen)
    /\ gen' = [gen EXCEPT !.pc = "returned"]
    /\ UNCHANGED <<width, height, seed, frame, sim, simHist, opt, optHist, sim2>>

\* line 400: write_mem_hex(in_mem_path, frame)
MainWriteInput ==
    /\ gen.pc = "returned"
    /\ gen' = [gen EXCEPT !.pc = "input_written",
                          !.written = gen.written \cup {"input_rgb565.mem"}]
    /\ UNCHANGED <<width, height, seed, frame, sim, simHist, opt, optHist, sim2>>

\* line 401: write_mem_hex(exp_mem_path, expected)
MainWriteExpected ==
    /\ gen.pc = "input_written"
    /\ gen' = [gen EXCEPT !.pc = "done",
                          !.written = gen.written \cup {"expected_output.mem"}]
    /\ UNCHANGED <<width, height, seed, frame, sim, simHist, opt, optHist, sim2>>

SimNext ==
    \/ GenPixelStep
    \/ GenRowIdleStep
    \/ GenDrainStep
    \/ GenRaise
    \/ GenReturn
    \/ MainWriteInput
    \/ MainWriteExpected

SpecSim == SimInit /\ [][SimNext]_vars


(***************************************************************************)
(* Properties of generate_vectors_rtl_optimized, checked under SpecOpt.    *)
(***************************************************************************)

\* C1: for width >= 3 and height >= 3 a complete run emits exactly
\* (height-2)*(width-2) outputs (the count main prints as "should be").
C1_CountLaw ==
    (opt.pc = "done" /\ width >= 3 /\ height >= 3)
        => Len(opt.expected) = (height - 2) * (width - 2)

\* C3: the window registered by the sobel stage is the 3x3 block of frame
\* lumas at rows r-2..r and columns c-2..c of the pixel (r, c) that made it
\* valid, and every emitted word is pack_edge_to_rgb565(sobel_edge8(W)) of
\* that block.
C3_EmittedWordIsSobelOfFrameBlock ==
    /\ opt.window_valid_sobel =>
          /\ optHist.px_sobel # NoPix
          /\ <<opt.top_row, opt.mid_row, opt.bot_row>>
                = FrameWindow(optHist.px_sobel[1], optHist.px_sobel[2])
    /\ Len(opt.expected) = Len(optHist.emitted)
    /\ \A k \in 1..Len(optHist.emitted) :
          LET e == optHist.emitted[k]
          IN  /\ e.pix # NoPix
              /\ e.pix[1] >= 2 /\ e.pix[2] >= 2
              /\ opt.expected[k] = e.word
              /\ e.word = pack_edge_to_rgb565(
                              sobel_edge8(FrameWindow(e.pix[1], e.pix[2])))

C3_Witness ==
    /\ opt.pc = "done"
    /\ Len(opt.expected) >= 2
    /\ \E k \in 1..Len(opt.expected) : opt.expected[k] # 0

\* C6: the k-th emitted output (from 0) belongs to the window made valid by
\* pixel (3 + k div (width-2), 2 + k mod (width-2)).
C6_KthOutputPixel ==
    \A k \in 1..Len(optHist.emitted) :
        optHist.emitted[k].pix
            = << 3 + ((k - 1) \div (width - 2)), 2 + ((k - 1) % (width - 2)) >>

C6_Witness ==
    /\ opt.pc = "done"
    /\ width >= 4
    /\ Len(optHist.emitted) > width - 2
    /\ optHist.emitted[1].pix = <<3, 2>>

\* C9: the 4 drain cycles flush the pipeline: after the loop every window
\* that became valid has been emitted, the last pixel's output came out in
\* the 4th drain cycle, and no valid flag is left set.
C9_DrainFlushes ==
    opt.pc = "done" =>
        /\ opt.cycle = (height * width) + 4
        /\ Len(opt.expected) = optHist.fired
        /\ ~opt.pixel_valid_d1 /\ ~opt.pixel_valid_d2
        /\ ~opt.window_valid_sobel /\ ~opt.window_valid_edge
        /\ (height >= 4 /\ width >= 3) =>
              LET last == optHist.emitted[Len(optHist.emitted)]
              IN  /\ last.pix = <<height - 1, width - 1>>
                  /\ last.cycle = (height * width) + 3

C9_Witness ==
    /\ opt.pc = "done"
    /\ optHist.fired > 0
    /\ optHist.emitted[Len(optHist.emitted)].pix = <<height - 1, width - 1>>

(***************************************************************************)
(* Properties of SobelPipelineSimulator and the class-based                *)
(* generate_vectors / main, checked under SpecSim.                         *)
(***************************************************************************)
AfterDrain == gen.pc \in {"check", "raised", "returned", "input_written", "done"}

\* The step call (0-based) that presented pixel (r, c).
PresentedAt(coord) == simHist.presented[(coord[1] * width) + coord[2] + 1]

\* C2: for width >= 2 and height >= 2 generate_vectors collects exactly
\* (height-2)*(width-1) outputs and never raises RuntimeError.
C2_ClassCountMatches ==
    (width >= 2 /\ height >= 2) =>
        /\ gen.pc # "raised"
        /\ AfterDrain => Len(gen.expected) = (height - 2) * (width - 1)

C2_Witness ==
    /\ gen.pc = "returned"
    /\ width >= 2 /\ height >= 3
    /\ Len(gen.expected) = (height - 2) * (width - 1)
    /\ Len(gen.expected) > 0

\* C4: whenever window_valid is set with tag (r, c), the bottom, mid and top
\* window rows hold the lumas of frame rows r, r-1 and r-2 (at the columns
\* c-2..c that exist in the frame).
C4_WindowHoldsThreeFrameRows ==
    sim.window_valid =>
        LET tag == sim.coord_fifo[Len(sim.coord_fifo)]
            r == tag[1]
            c == tag[2]
        IN  \A j \in 1..3 :
                (c - 3 + j >= 0) =>
                    /\ sim.bot_row[j] = Luma(r, c - 3 + j)
                    /\ sim.mid_row[j] = Luma(r - 1, c - 3 + j)
                    /\ sim.top_row[j] = Luma(r - 2, c - 3 + j)

\* C5 as stated: no returned output is tagged with row < 3 or col < 2, and
\* none with a row beyond height-1.
C5_NoTagBelowRow3Col2 ==
    \A i \in 1..Len(simHist.returned) :
        LET coord == simHist.returned[i].coord
        IN  coord # None =>
                /\ coord[1] >= 3
                /\ coord[2] >= 2
                /\ coord[1] <= height - 1

\* C5 amended: no returned output is tagged with row < 2 or col < 1, and
\* none with a row beyond height-1.
C5_NoTagBelowRow2Col1 ==
    \A i \in 1..Len(simHist.returned) :
        LET coord == simHist.returned[i].coord
        IN  coord # None =>
                /\ coord[1] >= 2
                /\ coord[2] >= 1
                /\ coord[1] <= height - 1

C5_Witness ==
    /\ \E i \in 1..Len(simHist.returned) : simHist.returned[i].coord = <<2, 1>>
    /\ \E i \in 1..Len(simHist.returned) :
          simHist.returned[i].coord = <<height - 1, width - 1>>

\* C7: the tags of the returned outputs follow raster order with no gap,
\* duplicate or reordering: the i-th output (from 0) is tagged
\* (2 + i div (width-1), 1 + i mod (width-1)), and after the drain every
\* position with row >= 2 and col >= 1 has produced its output.
C7_TagsInRasterOrderNoGaps ==
    /\ \A i \in 1..Len(simHist.returned) :
          simHist.returned[i].coord
              = << 2 + ((i - 1) \div (width - 1)), 1 + ((i - 1) % (width - 1)) >>
    /\ AfterDrain =>
          Len(simHist.returned)
              = (IF height >= 2 THEN height - 2 ELSE 0) * (width - 1)

C7_Witness ==
    /\ gen.pc = "check"
    /\ width >= 3
    /\ Len(simHist.returned) >= 2 * (width - 1)

\* C8 as stated: an output is returned by the 4th step call after the call
\* that presented the tagged pixel.
C8_ReturnedByFourthCall ==
    \A i \in 1..Len(simHist.returned) :
        LET o == simHist.returned[i]
        IN  o.coord # None => o.step_no = PresentedAt(o.coord) + 4

\* C8 amended: the tag of a valid window names its newest pixel, and the
\* output is returned by the 6th step call after the call that presented
\* that pixel.
C8_ReturnedBySixthCall ==
    /\ sim.window_valid =>
          LET tag == sim.coord_fifo[Len(sim.coord_fifo)]
          IN  sim.bot_row[3] = Luma(tag[1], tag[2])
    /\ \A i \in 1..Len(simHist.returned) :
          LET o == simHist.returned[i]
          IN  /\ o.coord # None
              /\ o.step_no = PresentedAt(o.coord) + 6

C8_Witness ==
    /\ Len(simHist.returned) >= 1
    /\ simHist.returned[Len(simHist.returned)].step_no = simHist.step_no - 1
    /\ gen.pc = "idle"

\* C10: when the collected count differs from the expected count,
\* generate_vectors ends in RuntimeError and main has written neither file.
C10_NoFilesOnCountMismatch ==
    /\ (AfterDrain /\ gen.pc # "check" /\ Len(gen.expected) # (height - 2) * (width - 1))
          => gen.pc = "raised"
    /\ gen.pc = "raised" => gen.written = {}
    /\ gen.written # {} => Len(gen.expected) = (height - 2) * (width - 1)

C10_Witness ==
    /\ gen.pc = "raised"
    /\ Len(gen.expected) # (height - 2) * (width - 1)
    /\ gen.written = {}

\* A step call of the simulator (the other actions leave sim alone).
IsStep == simHist'.step_no = simHist.step_no + 1

ZeroRows(self) ==
    /\ self.top_row = <<0, 0, 0>>
    /\ self.mid_row = <<0, 0, 0>>
    /\ self.bot_row = <<0, 0, 0>>

\* The cells of line1 and line2 addressed by the writes of a step from self.
Line1Written(self, after) == after.line1[(self.write_addr_d0 % self.width) + 1]

Line2Written(self, after) == after.line2[(self.write_addr_d1 % self.width) + 1]

\* C12: prefill_active is true before a step iff fewer than 2*width+1 valid
\* gray samples have been consumed; fill_count never exceeds 2*width; once
\* prefill_active is false no step sets it again.
C12_PrefillUntilTwoRowsAndOne ==
    /\ [](sim.prefill_active <=> simHist.consumed < (2 * width) + 1)
    /\ [](sim.fill_count <= 2 * width)
    /\ [][~sim.prefill_active => ~sim'.prefill_active]_vars

C12_Witness ==
    /\ ~sim.prefill_active
    /\ simHist.consumed = (2 * width) + 1
    /\ sim.fill_count = 2 * width

\* C13 as stated: in every step taken while prefill_active is true the
\* words written into line1 and line2 are zero, the window rows are zero
\* after the step, and window_valid is not set.
C13_PrefillWritesZero ==
    [][(IsStep /\ sim.prefill_active) =>
          /\ sim.pixel_valid_d0 => Line1Written(sim, sim') = 0
          /\ sim.pixel_valid_d1 => Line2Written(sim, sim') = 0
          /\ ZeroRows(sim')
          /\ ~sim'.window_valid]_vars

\* C13 amended: while prefill_active is true the word written into line2 is
\* zero and the word written into line1 is zero while row_count_d0 = 0 and
\* line0_q_d afterwards; the window rows are zero after the step and
\* window_valid is not set.
C13_PrefillWritesZeroWhileRow0 ==
    /\ [][(IsStep /\ sim.prefill_active) =>
            /\ (sim.pixel_valid_d0 /\ sim.row_count_d0 = 0)
                  => Line1Written(sim, sim') = 0
            /\ (sim.pixel_valid_d0 /\ sim.row_count_d0 # 0)
                  => Line1Written(sim, sim') = sim.line0_q_d
            /\ sim.pixel_valid_d1 => Line2Written(sim, sim') = 0
            /\ ZeroRows(sim')
            /\ ~sim'.window_valid]_vars
    /\ [](sim.prefill_active => (~sim.window_valid /\ ZeroRows(sim)))

C13_Witness ==
    /\ sim.prefill_active
    /\ sim.pixel_valid_d1
    /\ \E i \in 1..width : sim.line1[i] # 0
    /\ ZeroRows(sim)

\* C14 as stated: after every step each _d0 register equals the value its
\* signal held 1 step earlier and each _d1 register the value it held 2
\* steps earlier.
C14_DelayRegistersFollowEveryStep ==
    /\ simHist.step_no >= 1 =>
          /\ sim.pixel_valid_d0 = simHist.prev1.gray_valid
          /\ sim.col_addr_d0 = simHist.prev1.col_addr
          /\ sim.row_count_d0 = simHist.prev1.row_count
          /\ sim.pixel_in_d0 = simHist.prev1.gray_pixel
    /\ simHist.step_no >= 2 =>
          /\ sim.pixel_valid_d1 = simHist.prev2.gray_valid
          /\ sim.col_addr_d1 = simHist.prev2.col_addr
          /\ sim.row_count_d1 = simHist.prev2.row_count
          /\ sim.pixel_in_d1 = simHist.prev2.gray_pixel

\* C14 amended: pixel_valid_d0 and pixel_valid_d1 follow gray_valid by 1 and
\* 2 steps after every step; col_addr, row_count and pixel_in of the _d0
\* stage take the 1-step-earlier signals in a step that starts with
\* gray_valid set, those of the _d1 stage the 2-steps-earlier signals in a
\* step that starts with pixel_valid_d0 set, and they keep their value in
\* every other step.
C14_DelayRegistersFollowWhenEnabled ==
    /\ [](simHist.step_no >= 1 =>
            /\ sim.pixel_valid_d0 = simHist.prev1.gray_valid
            /\ simHist.prev1.gray_valid =>
                  /\ sim.col_addr_d0 = simHist.prev1.col_addr
                  /\ sim.row_count_d0 = simHist.prev1.row_count
                  /\ sim.pixel_in_d0 = simHist.prev1.gray_pixel)
    /\ [](simHist.step_no >= 2 =>
            /\ sim.pixel_valid_d1 = simHist.prev2.gray_valid
            /\ simHist.prev1.pixel_valid_d0 =>
                  /\ sim.col_addr_d1 = simHist.prev2.col_addr
                  /\ sim.row_count_d1 = simHist.prev2.row_count
                  /\ sim.pixel_in_d1 = simHist.prev2.gray_pixel)
    /\ [][/\ ~sim.gray_valid =>
                /\ sim'.col_addr_d0 = sim.col_addr_d0
                /\ sim'.row_count_d0 = sim.row_count_d0
                /\ sim'.pixel_in_d0 = sim.pixel_in_d0
          /\ ~sim.pixel_valid_d0 =>
                /\ sim'.col_addr_d1 = sim.col_addr_d1
                /\ sim'.row_count_d1 = sim.row_count_d1
                /\ sim'.pixel_in_d1 = sim.pixel_in_d1]_vars

C14_Witness ==
    /\ simHist.step_no >= 3
    /\ simHist.prev1.gray_valid
    /\ simHist.prev1.pixel_valid_d0
    /\ sim.col_addr_d0 = 2
    /\ sim.col_addr_d1 = 1
    /\ sim.row_count_d1 = 1

(***************************************************************************)
(* The line memories of generate_vectors_rtl_optimized (SpecOpt).          *)
(***************************************************************************)

\* C15: the cycle that presents pixel (r, c) with luma x leaves
\* line0_mem[c] = x, line1_mem[c] = the pre-cycle line0_mem[c] (luma of
\* (r-1, c), 0 when r = 0) and line2_mem[c] = the pre-cycle line1_mem[c]
\* (luma of (r-2, c), 0 when r < 2) and changes no other cell; a cycle with
\* valid = false changes no cell.
C15_CascadeWrite ==
    [][(opt'.cycle = opt.cycle + 1) =>
          LET valid == opt.cycle < height * width
              r == opt.cycle \div width
              c == opt.cycle % width
          IN  /\ valid =>
                    /\ opt'.line0_mem[c + 1] = gray_stream[opt.cycle + 1]
                    /\ opt'.line1_mem[c + 1] = opt.line0_mem[c + 1]
                    /\ opt.line0_mem[c + 1] = (IF r = 0 THEN 0 ELSE Luma(r - 1, c))
                    /\ opt'.line2_mem[c + 1] = opt.line1_mem[c + 1]
                    /\ opt.line1_mem[c + 1] = (IF r < 2 THEN 0 ELSE Luma(r - 2, c))
                    /\ \A i \in 1..width :
                          i # c + 1 =>
                              /\ opt'.line0_mem[i] = opt.line0_mem[i]
                              /\ opt'.line1_mem[i] = opt.line1_mem[i]
                              /\ opt'.line2_mem[i] = opt.line2_mem[i]
              /\ ~valid =>
                    /\ opt'.line0_mem = opt.line0_mem
                    /\ opt'.line1_mem = opt.line1_mem
                    /\ opt'.line2_mem = opt.line2_mem]_vars

C15_Witness ==
    /\ opt.cycle = (2 * width) + 1
    /\ height >= 3
    /\ opt.line0_mem[1] = Luma(2, 0)
    /\ opt.line1_mem[1] = Luma(1, 0)
    /\ opt.line2_mem[1] = Luma(0, 0)
    /\ opt.line2_mem[1] # opt.line1_mem[1]

(***************************************************************************)
(* The row loop of generate_vectors over a frame of more than max_row      *)
(* rows: width valid pixels and then RowIdleSteps idle steps per row, so   *)
(* that the row counter reaches its cap.  The pixel words come from the same congruential       *)
(* stream as the frames, kept in gen.rgb; simHist counts the calls and the *)
(* valid gray samples they consumed.                                       *)
(***************************************************************************)
MaxLongWidth == 2

LongRows == 65537

LongInit ==
    /\ width \in 1..MaxLongWidth
    /\ height = LongRows
    /\ seed = 0
    /\ frame = <<>>
    /\ sim = SimNew(width, FALSE)
    /\ gen = [pc |-> "pixels", row |-> 0, col |-> 0, idle |-> 0,
              rgb |-> getrandbits(0, 0), last_pixel |-> 0]
    /\ simHist = [step_no |-> 0, consumed |-> 0]
    /\ opt = [pc |-> "off"]
    /\ optHist = [pc |-> "off"]
    /\ sim2 = [pc |-> "off"]

LongHistAfter(hst, self) ==
    [ step_no |-> hst.step_no + 1,
      consumed |-> IF self.gray_valid THEN hst.consumed + 1 ELSE hst.consumed ]

\* sim.step(True, rgb) for the next pixel of the row.
LongPixelStep ==
    /\ gen.pc = "pixels"
    /\ sim' = step(sim, TRUE, gen.rgb).self
    /\ simHist' = LongHistAfter(simHist, sim)
    /\ gen' = [ gen EXCEPT
                  !.rgb = ((gen.rgb * 25173) + 13849) % 65536,
                  !.last_pixel = gen.rgb,
                  !.col = IF gen.col + 1 = width THEN 0 ELSE gen.col + 1,
                  !.pc = IF gen.col + 1 = width THEN "idle" ELSE "pixels" ]
    /\ UNCHANGED <<width, height, seed, frame, opt, optHist, sim2>>

\* sim.step(False, last_pixel), one of the idle steps after the row.
LongIdleStep ==
    /\ gen.pc = "idle"
    /\ sim' = step(sim, FALSE, gen.last_pixel).self
    /\ simHist' = LongHistAfter(simHist, sim)
    /\ gen' = IF gen.idle + 1 < RowIdleSteps
              THEN [ gen EXCEPT !.idle = gen.idle + 1 ]
              ELSE [ gen EXCEPT
                       !.idle = 0,
                       !.row = gen.row + 1,
                       !.pc = IF gen.row + 1 = height THEN "done"
                              ELSE "pixels" ]
    /\ UNCHANGED <<width, height, seed, frame, opt, optHist, sim2>>

LongNext == LongPixelStep \/ LongIdleStep

SpecLong == LongInit /\ [][LongNext]_vars

Min(a, b) == IF a < b THEN a ELSE b

RunSteps == (height * (width + RowIdleSteps)) + DrainSteps

\* The (href, rgb_pixel) arguments of call number n (from 0) of a run.
Stimulus(n) ==
    LET per == width + RowIdleSteps
        row == n \div per
        pos == n % per
    IN  IF row < height
        THEN IF pos < width
             THEN <<TRUE, frame[(row * width) + pos + 1]>>
             ELSE <<FALSE, frame[(row * width) + width]>>
        ELSE <<FALSE, frame[height * width]>>

ResetInit ==
    /\ width \in 1..MaxWidth
    /\ height \in 1..MaxHeight
    /\ seed \in 0..MaxSeed
    /\ frame = MakeFrame(width, height, seed)
    /\ \E debug \in BOOLEAN : sim = SimNew(width, debug)
    /\ sim2 = [pc |-> "none"]
    /\ gen = [ pc |-> "first", n |-> 0, used |-> FALSE,
               out |-> <<>>, out2 |-> <<>> ]
    /\ simHist = [pc |-> "off"]
    /\ opt = [pc |-> "off"]
    /\ optHist = [pc |-> "off"]

\* A step call of the first run.
ResetFirstRunStep ==
    /\ gen.pc = "first"
    /\ gen.n < RunSteps
    /\ sim' = step(sim, Stimulus(gen.n)[1], Stimulus(gen.n)[2]).self
    /\ gen' = [gen EXCEPT !.n = gen.n + 1]
    /\ UNCHANGED <<width, height, seed, frame, opt, optHist, simHist, sim2>>

\* sim.reset(); a second simulator is constructed for the comparison.
\* gen.used records that the reset found the pipeline in use: outputs
\* pending, prefill over, line memories written.
ResetCall ==
    /\ gen.pc = "first"
    /\ sim' = reset(sim)
    /\ sim2' = SimNew(width, sim.debug_enabled)
    /\ gen' = [ gen EXCEPT
                  !.pc = "second", !.n = 0,
                  !.used = /\ sim.coord_fifo # <<>>
                           /\ ~sim.prefill_active
                           /\ sim.line2 # Zeros(width)
                           /\ sim.edge_valid ]
    /\ UNCHANGED <<width, height, seed, frame, opt, optHist, simHist>>

\* The same step call on the reset simulator and on the fresh one.
ResetSecondRunStep ==
    /\ gen.pc = "second"
    /\ LET st == Stimulus(gen.n)
           r1 == step(sim, st[1], st[2])
           r2 == step(sim2, st[1], st[2])
       IN  /\ sim' = r1.self
           /\ sim2' = r2.self
           /\ gen' = [ gen EXCEPT
                         !.n = gen.n + 1,
                         !.out = gen.out \o r1.outputs,
                         !.out2 = gen.out2 \o r2.outputs,
                         !.pc = IF gen.n + 1 = RunSteps THEN "done"
                                ELSE "second" ]
    /\ UNCHANGED <<width, height, seed, frame, opt, optHist, simHist>>

ResetNext == ResetFirstRunStep \/ ResetCall \/ ResetSecondRunStep

SpecReset == ResetInit /\ [][ResetNext]_vars

\* C17: reset() called in any reachable state restores the state of a
\* freshly constructed simulator, and the frame driven after it returns the
\* output sequence a fresh simulator returns.
C17_ResetRestoresInitialState ==
    /\ [][gen.pc = "first" /\ gen'.pc = "second" =>
            sim' = SimNew(width, sim.debug_enabled)]_vars
    /\ [](gen.pc \in {"second", "done"} =>
            /\ gen.out = gen.out2
            /\ sim = sim2)

C17_Witness ==
    /\ gen.pc = "done"
    /\ gen.used
    /\ gen.out # <<>>
    /\ gen.out = gen.out2

(***************************************************************************)
(* Two simulators of the same width, sim constructed with debug=True and   *)
(* sim2 with debug=False, given the same step calls: those of              *)
(* generate_vectors over the frame.  gen.out and gen.out2 are the outputs  *)
(* (word, coordinate) each has returned.                                   *)
(***************************************************************************)
DebugInit ==
    /\ width \in 1..MaxWidth
    /\ height \in 1..MaxHeight
    /\ seed \in 0..MaxSeed
    /\ frame = MakeFrame(width, height, seed)
    /\ sim = SimNew(width, TRUE)
    /\ sim2 = SimNew(width, FALSE)
    /\ gen = [pc |-> "run", n |-> 0, out |-> <<>>, out2 |-> <<>>]
    /\ simHist = [pc |-> "off"]
    /\ opt = [pc |-> "off"]
    /\ optHist = [pc |-> "off"]

\* The same step call on both simulators.
DebugStep ==
    /\ gen.pc = "run"
    /\ LET st == Stimulus(gen.n)
           r1 == step(sim, st[1], st[2])
           r2 == step(sim2, st[1], st[2])
       IN  /\ sim' = r1.self
           /\ sim2' = r2.self
           /\ gen' = [ gen EXCEPT
                         !.n = gen.n + 1,
                         !.out = gen.out \o r1.outputs,
                         !.out2 = gen.out2 \o r2.outputs,
                         !.pc = IF gen.n + 1 = RunSteps THEN "done"
                                ELSE "run" ]
    /\ UNCHANGED <<width, height, seed, frame, opt, optHist, simHist>>

DebugNext == DebugStep

SpecDebug == DebugInit /\ [][DebugNext]_vars

\* The attributes of a simulator other than the debug flag and its trace.
PipelineState(self) ==
    [ f \in (DOMAIN self) \ {"debug_enabled", "window_debug"} |-> self[f] ]

\* C18: a debug=True and a debug=False simulator given the same step calls
\* return the same words and coordinates at every step and have the same
\* pipeline state; only window_debug (and the flag) differ.
C18_DebugFlagHasNoEffect ==
    /\ gen.out = gen.out2
    /\ PipelineState(sim) = PipelineState(sim2)
    /\ sim2.window_debug = None

C18_Witness ==
    /\ gen.pc = "done"
    /\ gen.out # <<>>
    /\ gen.out = gen.out2
    /\ Len(sim.window_debug) = Len(gen.out)
    /\ sim2.window_debug = None

(***************************************************************************)
(* scripts/compare_sobel_output.py.  The streams are sequences of 16-bit   *)
(* words: frame is the stimulus file, gen.actual the simulation output     *)
(* file; width, height and gen.frames are the metadata.  Arrays are flat   *)
(* sequences in C order, so element (f, r, c) of a (frames, h, w) array is *)
(* index ((f * h) + r) * w + c + 1.                                        *)
(***************************************************************************)
MaxCmpWidth == 3

MaxCmpHeight == 4

MaxFrames == 2

MaxBad == 2

rgb565_to_channels(rgb565) ==
    LET r5 == BitAnd(Shr(rgb565, 11), 31)
        g6 == BitAnd(Shr(rgb565, 5), 63)
        b5 == BitAnd(rgb565, 31)
    IN  << BitOr(Shl(r5, 3), Shr(r5, 2)) % 65536,
           BitOr(Shl(g6, 2), Shr(g6, 4)) % 65536,
           BitOr(Shl(b5, 3), Shr(b5, 2)) % 65536 >>

\* One element of rgb565_to_gray: uint16 arithmetic, then astype(uint8).
rgb565_to_gray(rgb565) ==
    LET ch == rgb565_to_channels(rgb565)
        weighted == ((ch[1] * 77) + (ch[2] * 151) + (ch[3] * 28)) % 65536
    IN  Shr(weighted, 8) % 256

\* sobel_reference(gray_frames) for gray_frames of shape (frames, h, w),
\* valid_h > 0 and valid_w > 0: the (frames, h-2, w-1) magnitudes.
sobel_reference(gray_frames, frames, h, w) ==
    LET vh == h - 2
        vw == w - 1
        G(f, r, c) == gray_frames[(((f * h) + r) * w) + c + 1]
        mag(f, i, j) ==
            LET top_left == G(f, i, j)
                top_center == G(f, i, j + 1)
                top_right == G(f, i, (j + 2) % w)
                mid_left == G(f, i + 1, j)
                mid_right == G(f, i + 1, (j + 2) % w)
                bot_left == G(f, i + 2, j)
                bot_center == G(f, i + 2, j + 1)
                bot_right == G(f, i + 2, (j + 2) % w)
                gx == ((0 - top_left) + top_right) - (2 * mid_left)
                      + (2 * mid_right) - bot_left + bot_right
                gy == ((0 - top_left) - (2 * top_center) - top_right)
                      + bot_left + (2 * bot_center) + bot_right
                m == Shr(Abs(gx) + Abs(gy), 3)
            IN  IF m > 255 THEN 255 ELSE m
    IN  [ k \in 1..(frames * vh * vw) |->
            mag((k - 1) \div (vh * vw), ((k - 1) \div vw) % vh, (k - 1) % vw) ]

magnitude_to_rgb565(mag) ==
    LET r == Shr(mag, 3)
        g == Shr(mag, 2)
        b == Shr(mag, 3)
    IN  BitOr(BitOr(Shl(r, 11), Shl(g, 5)), b) % 65536

\* np.count_nonzero(diff_words)
count_nonzero_AnyNonzero(diff_words) ==
    IF \E i \in DOMAIN diff_words : diff_words[i] # 0 THEN 1 ELSE 0

count_nonzero(diff_words) ==
    Cardinality({i \in DOMAIN diff_words : diff_words[i] # 0})

\* frames * height * width and frames * valid_h * valid_w of main.
total_pixels == gen.frames * height * width

total_samples == gen.frames * (height - 2) * (width - 1)

\* The subsets of S of at most k elements.
RECURSIVE SubsetsUpTo(_, _)
SubsetsUpTo(S, k) ==
    IF k = 0 THEN {{}}
    ELSE LET prev == SubsetsUpTo(S, k - 1)
         IN  prev \cup {b \cup {x} : b \in prev, x \in S}

\* The words the reference expects for a stimulus, where it has any.
ReferenceWords(stimulus, frames, h, w) ==
    IF Len(stimulus) >= frames * h * w /\ h - 2 > 0 /\ w - 1 > 0
    THEN LET input_frames == SubSeq(stimulus, 1, frames * h * w)
             gray == [i \in DOMAIN input_frames |-> rgb565_to_gray(input_frames[i])]
             mag == sobel_reference(gray, frames, h, w)
         IN  [i \in DOMAIN mag |-> magnitude_to_rgb565(mag[i])]
    ELSE <<>>

\* The files main is given: a stimulus and an output stream each one sample
\* short, exact or one sample long, the output stream being the reference's
\* words with the positions in bad altered.
CmpInit ==
    /\ width \in 1..MaxCmpWidth
    /\ height \in 1..MaxCmpHeight
    /\ seed = 0
    /\ \E frames \in 1..MaxFrames, din \in {0 - 1, 0, 1}, dout \in {0 - 1, 0, 1} :
         LET lin == (frames * height * width) + din
             ts == (frames * (height - 2) * (width - 1)) + dout
             lout == IF ts < 0 THEN 0 ELSE ts
         IN  /\ frame = [i \in 1..lin |-> getrandbits(0, i)]
             /\ \E bad \in SubsetsUpTo(1..lout, MaxBad) :
                  LET ref == ReferenceWords(frame, frames, height, width)
                      word(i) == IF i <= Len(ref) THEN ref[i]
                                 ELSE getrandbits(1, i)
                  IN  gen = [ pc |-> "args", frames |-> frames, bad |-> bad,
                              actual |-> [i \in 1..lout |->
                                            IF i \in bad
                                            THEN (word(i) + 1) % 65536
                                            ELSE word(i)],
                              input_frames |-> <<>>, expected_mag |-> <<>>,
                              expected_rgb565 |-> <<>>,
                              compared |-> 0 - 1, mismatches |-> 0 - 1,
                              max_abs_diff |-> 0 - 1, sum_abs_diff |-> 0 - 1,
                              sum_sq_diff |-> 0 - 1, psnr |-> "",
                              report |-> <<>>, status |-> "", error |-> "" ]
    /\ sim = [pc |-> "off"]
    /\ sim2 = [pc |-> "off"]
    /\ simHist = [pc |-> "off"]
    /\ opt = [pc |-> "off"]
    /\ optHist = [pc |-> "off"]

CmpRest == <<width, height, seed, frame, opt, optHist, sim, sim2, simHist>>

\* lines 181-186: the three paths exist, or FileNotFoundError.
CmpCheckPaths ==
    /\ gen.pc = "args"
    /\ \E exists \in BOOLEAN :
         gen' = IF exists THEN [gen EXCEPT !.pc = "read_input"]
                ELSE [gen EXCEPT !.pc = "error", !.error = "FileNotFoundError"]
    /\ UNCHANGED CmpRest

\* lines 194-201: read the stimulus; too short raises, the rest is cut to
\* total_pixels samples.
CmpReadInput ==
    /\ gen.pc = "read_input"
    /\ gen' = IF Len(frame) < total_pixels
              THEN [gen EXCEPT !.pc = "error", !.error = "ValueError: stimulus size"]
              ELSE [gen EXCEPT !.pc = "reference",
                               !.input_frames = SubSeq(frame, 1, total_pixels)]
    /\ UNCHANGED CmpRest

\* lines 203-206: gray frames, sobel_reference (which raises on frames too
\* small for the kernel), expected RGB565 words.
CmpReference ==
    /\ gen.pc = "reference"
    /\ gen' = IF height - 2 <= 0 \/ width - 1 <= 0
              THEN [gen EXCEPT !.pc = "error", !.error = "ValueError: dimensions"]
              ELSE LET gray == [i \in DOMAIN gen.input_frames |->
                                  rgb565_to_gray(gen.input_frames[i])]
                       mag == sobel_reference(gray, gen.frames, height, width)
                   IN  [gen EXCEPT !.pc = "read_output",
                                   !.expected_mag = mag,
                                   !.expected_rgb565 =
                                       [i \in DOMAIN mag |-> magnitude_to_rgb565(mag[i])]]
    /\ UNCHANGED CmpRest

\* lines 208-217: read the output stream; any other size than total_samples
\* raises.
CmpReadOutput ==
    /\ gen.pc = "read_output"
    /\ gen' = IF Len(gen.actual) # total_samples
              THEN [gen EXCEPT !.pc = "error", !.error = "ValueError: output size"]
              ELSE [gen EXCEPT !.pc = "compare"]
    /\ UNCHANGED CmpRest

\* The sum and the largest of a sequence of non-negative integers.
RECURSIVE SumOf(_)
SumOf(xs) == IF xs = <<>> THEN 0 ELSE Head(xs) + SumOf(Tail(xs))

RECURSIVE MaxOf(_)
MaxOf(xs) ==
    IF xs = <<>> THEN 0
    ELSE LET m == MaxOf(Tail(xs)) IN IF Head(xs) > m THEN Head(xs) ELSE m

\* lines 219-230: diff_words over every position, mismatches, and the
\* statistics of the magnitudes: the actual magnitude is the luma of the
\* actual word.  mean_abs_diff and mse are kept as the sums they divide by
\* the number of samples.
CmpCompare ==
    /\ gen.pc = "compare"
    /\ LET diff_words == [i \in DOMAIN gen.expected_rgb565 |->
                            gen.expected_rgb565[i] - gen.actual[i]]
           actual_mag_roi == [i \in DOMAIN gen.actual |-> rgb565_to_gray(gen.actual[i])]
           abs_diff == [i \in DOMAIN gen.expected_mag |->
                          Abs(gen.expected_mag[i] - actual_mag_roi[i])]
           sq_diff == [i \in DOMAIN abs_diff |-> abs_diff[i] * abs_diff[i]]
       IN  gen' = [gen EXCEPT !.pc = "report",
                              !.compared = Len(diff_words),
                              !.mismatches = count_nonzero(diff_words),
                              !.max_abs_diff = MaxOf(abs_diff),
                              !.sum_abs_diff = SumOf(abs_diff),
                              !.sum_sq_diff = SumOf(sq_diff),
                              !.psnr = IF SumOf(sq_diff) = 0 THEN "inf"
                                       ELSE "finite"]
    /\ UNCHANGED CmpRest

\* lines 232-258: the summary, and the JSON report when asked for.
CmpReport ==
    /\ gen.pc = "report"
    /\ \E wanted \in BOOLEAN :
         gen' = [gen EXCEPT !.pc = "diff_video",
                            !.report = IF wanted
                                       THEN <<total_samples, gen.mismatches>>
                                       ELSE <<>>]
    /\ UNCHANGED CmpRest

\* lines 260-263: the diff video when asked for; the writer may fail to open.
CmpDiffVideo ==
    /\ gen.pc = "diff_video"
    /\ \E outcome \in {"not asked", "written", "RuntimeError"} :
         gen' = IF outcome = "RuntimeError"
                THEN [gen EXCEPT !.pc = "error", !.error = "RuntimeError: video writer"]
                ELSE [gen EXCEPT !.pc = "status"]
    /\ UNCHANGED CmpRest

\* lines 265-268: Status: PASS or FAIL.
CmpStatus ==
    /\ gen.pc = "status"
    /\ gen' = [gen EXCEPT !.pc = "done",
                          !.status = IF gen.mismatches = 0 THEN "PASS" ELSE "FAIL"]
    /\ UNCHANGED CmpRest

CmpNext ==
    \/ CmpCheckPaths
    \/ CmpReadInput
    \/ CmpReference
    \/ CmpReadOutput
    \/ CmpCompare
    \/ CmpReport
    \/ CmpDiffVideo
    \/ CmpStatus

SpecCmp == CmpInit /\ [][CmpNext]_vars

\* The positions at which the expected and the actual word differ.
Differing ==
    {i \in 1..total_samples : gen.expected_rgb565[i] # gen.actual[i]}

\* C19: a mismatch never ends the comparison early: all frames*(height-2)*
\* (width-1) positions are compared, the mismatch count is the number of
\* positions whose words differ, and the status is PASS iff the count is zero.
C19_AllPositionsCompared ==
    /\ gen.compared # 0 - 1 =>
          /\ gen.compared = gen.frames * (height - 2) * (width - 1)
          /\ gen.mismatches = Cardinality(Differing)
          /\ gen.mismatches = Cardinality(gen.bad)
          /\ gen.error \in {"", "RuntimeError: video writer"}
    /\ gen.status # "" =>
          /\ gen.compared # 0 - 1
          /\ gen.status \in {"PASS", "FAIL"}
          /\ gen.status = "PASS" <=> Cardinality(Differing) = 0

C19_Witness ==
    /\ gen.pc = "done"
    /\ gen.status = "FAIL"
    /\ gen.frames = 2
    /\ gen.mismatches = 2
    /\ gen.bad = {1, total_samples}
    /\ total_samples >= 4

\* C20: main stops with an error before comparing whenever the stimulus does
\* not hold frames*height*width samples or the output stream does not hold
\* frames*(height-2)*(width-1) samples.
C20_WrongCountNeverCompared ==
    (Len(frame) # total_pixels \/ Len(gen.actual) # total_samples) =>
        /\ gen.compared = 0 - 1
        /\ gen.status = ""

(***************************************************************************)
(* The Sobel helpers on their own: sobel_gx_gy and gradients_to_edge_mag   *)
(* applied to a 3x3 window of 8-bit cells.  The cells are drawn from       *)
(* MaxLevel + 1 evenly spaced levels of 0..255, both ends included.        *)
(***************************************************************************)
MaxLevel == 2

Levels == {(255 * i) \div MaxLevel : i \in 0..MaxLevel}

KernelInit ==
    /\ width = 3
    /\ height = 3
    /\ seed = 0
    /\ frame = <<>>
    /\ \E p0 \in Levels, p1 \in Levels, p2 \in Levels, p3 \in Levels,
          p4 \in {0, 255}, p5 \in Levels, p6 \in Levels, p7 \in Levels,
          p8 \in Levels :
         gen = [ pc |-> "window", win |-> <<<<p0, p1, p2>>, <<p3, p4, p5>>,
                                              <<p6, p7, p8>>>>,
                 gx |-> 0, gy |-> 0, mag |-> 0 ]
    /\ sim = [pc |-> "off"]
    /\ sim2 = [pc |-> "off"]
    /\ simHist = [pc |-> "off"]
    /\ opt = [pc |-> "off"]
    /\ optHist = [pc |-> "off"]

\* gx, gy = sobel_gx_gy(win)
KernelGradients ==
    /\ gen.pc = "window"
    /\ gen' = [gen EXCEPT !.pc = "gradients",
                          !.gx = sobel_gx_gy(gen.win)[1],
                          !.gy = sobel_gx_gy(gen.win)[2]]
    /\ UNCHANGED <<width, height, seed, frame, opt, optHist, sim, sim2, simHist>>

\* gradients_to_edge_mag(gx, gy)
KernelMagnitude ==
    /\ gen.pc = "gradients"
    /\ gen' = [gen EXCEPT !.pc = "magnitude",
                          !.mag = gradients_to_edge_mag(gen.gx, gen.gy)]
    /\ UNCHANGED <<width, height, seed, frame, opt, optHist, sim, sim2, simHist>>

KernelNext == KernelGradients \/ KernelMagnitude

SpecKernel == KernelInit /\ [][KernelNext]_vars

\* C21: for a window of 8-bit cells gx and gy lie in -1020..1020, and the
\* magnitude is min(255, (|gx| + |gy|) >> 3), in 0..255.
C21_GradientRange ==
    /\ gen.pc \in {"gradients", "magnitude"} =>
          /\ gen.gx >= 0 - 1020 /\ gen.gx <= 1020
          /\ gen.gy >= 0 - 1020 /\ gen.gy <= 1020
          /\ gen.gx >= 0 - 1024 /\ gen.gx <= 1023
          /\ gen.gy >= 0 - 1024 /\ gen.gy <= 1023
    /\ gen.pc = "magnitude" =>
          /\ gen.mag = Min(255, (Abs(gen.gx) + Abs(gen.gy)) \div 8)
          /\ gen.mag >= 0 /\ gen.mag <= 255

C21_Witness ==
    /\ gen.pc = "magnitude"
    /\ gen.gx = 1020
    /\ gen.gy # 0
    /\ gen.mag = (1020 + Abs(gen.gy)) \div 8

\* C30: for a window of 8-bit cells |gx| + |gy| <= 1530, so the shifted sum
\* is at most 191, gradients_to_edge_mag never clamps and every magnitude
\* lies in 0..191.
C30_SaturationUnreachable ==
    /\ gen.pc \in {"gradients", "magnitude"} =>
          /\ Abs(gen.gx) + Abs(gen.gy) <= 1530
          /\ (Abs(gen.gx) + Abs(gen.gy)) \div 8 <= 191
    /\ gen.pc = "magnitude" =>
          /\ gen.mag = (Abs(gen.gx) + Abs(gen.gy)) \div 8
          /\ gen.mag >= 0 /\ gen.mag <= 191

C30_Witness ==
    /\ gen.pc = "magnitude"
    /\ Abs(gen.gx) + Abs(gen.gy) = 1530
    /\ gen.mag = 191

(***************************************************************************)
(* The RGB565 helpers on their own, each applied to every value of its     *)
(* argument's width: 5-bit and 6-bit channels, 8-bit magnitudes, 16-bit    *)
(* words.                                                                  *)
(***************************************************************************)
\* debug_window_at_col7.py: rgb565_to_gray8, which clamps instead of masking.
debug_rgb565_to_gray8(rgb) ==
    LET r5 == BitAnd(Shr(rgb, 11), 31)
        g6 == BitAnd(Shr(rgb, 5), 63)
        b5 == BitAnd(rgb, 31)
        r8 == BitOr(Shl(r5, 3), Shr(r5, 2))
        g8 == BitOr(Shl(g6, 2), Shr(g6, 4))
        b8 == BitOr(Shl(b5, 3), Shr(b5, 2))
        gray == Shr((77 * r8) + (151 * g8) + (28 * b8), 8)
    IN  IF gray <= 255 THEN gray ELSE 255

\* A magnitude packed and decoded again: <<decoded luma, decoded luma packed>>.
RoundTrip_Identity(x) == <<x, pack_edge_to_rgb565(x)>>

RoundTrip(x) ==
    LET decoded == rgb565_to_gray8(pack_edge_to_rgb565(x))
    IN  <<decoded, pack_edge_to_rgb565(decoded)>>

CodecInit ==
    /\ width = 0
    /\ height = 0
    /\ seed = 0
    /\ frame = <<>>
    /\ \/ \E v \in 0..31 :
            gen = [pc |-> "call", fn |-> "expand5to8", arg |-> v, result |-> <<>>]
       \/ \E v \in 0..63 :
            gen = [pc |-> "call", fn |-> "expand6to8", arg |-> v, result |-> <<>>]
       \/ \E m \in 0..255 :
            gen = [pc |-> "call", fn |-> "pack_edge_to_rgb565", arg |-> m,
                   result |-> <<>>]
       \/ \E rgb \in 0..65535 :
            gen = [pc |-> "call", fn |-> "rgb565_to_gray8", arg |-> rgb,
                   result |-> <<>>]
       \/ \E x \in 0..255 :
            gen = [pc |-> "call", fn |-> "round_trip", arg |-> x, result |-> <<>>]
    /\ sim = [pc |-> "off"]
    /\ sim2 = [pc |-> "off"]
    /\ simHist = [pc |-> "off"]
    /\ opt = [pc |-> "off"]
    /\ optHist = [pc |-> "off"]

CodecRest == <<width, height, seed, frame, opt, optHist, sim, sim2, simHist>>

\* expand5to8(v), and the red channel rgb565_to_channels gives for v.
CodecExpand5 ==
    /\ gen.pc = "call" /\ gen.fn = "expand5to8"
    /\ gen' = [gen EXCEPT !.pc = "done",
                          !.result = <<expand5to8(gen.arg),
                                       rgb565_to_channels(Shl(gen.arg, 11))[1]>>]
    /\ UNCHANGED CodecRest

\* expand6to8(v), and the green channel rgb565_to_channels gives for v.
CodecExpand6 ==
    /\ gen.pc = "call" /\ gen.fn = "expand6to8"
    /\ gen' = [gen EXCEPT !.pc = "done",
                          !.result = <<expand6to8(gen.arg),
                                       rgb565_to_channels(Shl(gen.arg, 5))[2]>>]
    /\ UNCHANGED CodecRest

\* pack_edge_to_rgb565(m) and magnitude_to_rgb565(m).
CodecPack ==
    /\ gen.pc = "call" /\ gen.fn = "pack_edge_to_rgb565"
    /\ gen' = [gen EXCEPT !.pc = "done",
                          !.result = <<pack_edge_to_rgb565(gen.arg),
                                       magnitude_to_rgb565(gen.arg)>>]
    /\ UNCHANGED CodecRest

\* rgb565_to_gray8(rgb) of both scripts.
CodecGray ==
    /\ gen.pc = "call" /\ gen.fn = "rgb565_to_gray8"
    /\ gen' = [gen EXCEPT !.pc = "done",
                          !.result = <<rgb565_to_gray8(gen.arg),
                                       debug_rgb565_to_gray8(gen.arg)>>]
    /\ UNCHANGED CodecRest

\* rgb565_to_gray8(pack_edge_to_rgb565(x)), and that value packed again.
CodecRoundTrip ==
    /\ gen.pc = "call" /\ gen.fn = "round_trip"
    /\ gen' = [gen EXCEPT !.pc = "done", !.result = RoundTrip(gen.arg)]
    /\ UNCHANGED CodecRest

CodecNext ==
    \/ CodecExpand5
    \/ CodecExpand6
    \/ CodecPack
    \/ CodecGray
    \/ CodecRoundTrip

SpecCodec == CodecInit /\ [][CodecNext]_vars

Returned(fn) == gen.pc = "done" /\ gen.fn = fn

\* C22: for m in 0..255 pack_edge_to_rgb565(m) is the 16-bit word with red
\* field m >> 3, green field m >> 2 and blue field m >> 3; magnitude_to_rgb565
\* gives the same word.
C22_PackFields ==
    Returned("pack_edge_to_rgb565") =>
        LET m == gen.arg
            word == gen.result[1]
        IN  /\ word >= 0 /\ word <= 65535
            /\ word \div 2048 = m \div 8
            /\ (word \div 32) % 64 = m \div 4
            /\ word % 32 = m \div 8
            /\ word % 32 = word \div 2048
            /\ gen.result[2] = word

C22_Witness ==
    /\ Returned("pack_edge_to_rgb565")
    /\ gen.arg = 191
    /\ gen.result[1] = (23 * 2048) + (47 * 32) + 23

\* C23: for every 16-bit word (77*R + 151*G + 28*B) >> 8 is at most 255, so
\* the & 0xFF mask changes nothing and rgb565_to_gray8 is the floor of the
\* weighted sum over 256; 0xFFFF gives 255 and 0x0000 gives 0.
C23_LumaNeedsNoMask ==
    Returned("rgb565_to_gray8") =>
        LET r5 == (gen.arg \div 2048) % 32
            g6 == (gen.arg \div 32) % 64
            b5 == gen.arg % 32
            R == (8 * r5) + (r5 \div 4)
            G == (4 * g6) + (g6 \div 16)
            B == (8 * b5) + (b5 \div 4)
            weighted == (77 * R) + (151 * G) + (28 * B)
        IN  /\ weighted \div 256 <= 255
            /\ gen.result[1] = weighted \div 256
            /\ gen.result[2] = gen.result[1]
            /\ gen.arg = 65535 => gen.result[1] = 255
            /\ gen.arg = 0 => gen.result[1] = 0

C23_Witness ==
    /\ Returned("rgb565_to_gray8")
    /\ gen.arg = 65535
    /\ gen.result[1] = 255

\* C24: expand5to8(v) = 8*v + (v div 4) for 5-bit v and expand6to8(v) =
\* 4*v + (v div 16) for 6-bit v; both lie in 0..255, send the largest channel
\* value to 255 and differ from the plain left shift exactly when the
\* filled-in low bits are non-zero.
C24_BitReplication ==
    /\ Returned("expand5to8") =>
          /\ gen.result[1] = (8 * gen.arg) + (gen.arg \div 4)
          /\ gen.result[1] >= 0 /\ gen.result[1] <= 255
          /\ gen.arg = 31 => gen.result[1] = 255
          /\ gen.arg \div 4 # 0 => gen.result[1] # 8 * gen.arg
          /\ gen.result[2] = gen.result[1]
    /\ Returned("expand6to8") =>
          /\ gen.result[1] = (4 * gen.arg) + (gen.arg \div 16)
          /\ gen.result[1] >= 0 /\ gen.result[1] <= 255
          /\ gen.arg = 63 => gen.result[1] = 255
          /\ gen.arg \div 16 # 0 => gen.result[1] # 4 * gen.arg
          /\ gen.result[2] = gen.result[1]

C24_Witness ==
    /\ Returned("expand5to8")
    /\ gen.arg = 31
    /\ gen.result[1] = 255
    /\ gen.result[1] # 8 * gen.arg

\* C25: decoding a packed magnitude does not give the magnitude back for
\* every x in 0..255 (1..7 decode to 0 or 2), and packing the decoded value
\* does not always give the packed word back (not for 4..7).
C25_PackingNotInvertible ==
    /\ \E x \in 0..255 : RoundTrip(x)[1] # x
    /\ \E x \in 0..255 : RoundTrip(x)[2] # pack_edge_to_rgb565(x)
    /\ Returned("round_trip") /\ gen.arg \in 1..7 =>
          /\ gen.result[1] \in {0, 2}
          /\ gen.result[1] # gen.arg
    /\ Returned("round_trip") /\ gen.arg \in 4..7 =>
          gen.result[2] # pack_edge_to_rgb565(gen.arg)

C25_Witness ==
    /\ Returned("round_trip")
    /\ gen.arg = 7
    /\ gen.result[1] = 2
    /\ gen.result[2] = 0
    /\ pack_edge_to_rgb565(gen.arg) = 32

(***************************************************************************)
(* The coordinate queue of SobelPipelineSimulator (SpecSim).               *)
(***************************************************************************)
\* The number of set flags among window_valid, sobel_valid and edge_valid.
FlagsSet(self) ==
    (IF self.window_valid THEN 1 ELSE 0) + (IF self.sobel_valid THEN 1 ELSE 0)
        + (IF self.edge_valid THEN 1 ELSE 0)

\* C26: after every step len(coord_fifo) is the number of set flags among
\* window_valid, sobel_valid and edge_valid (at most 3); every returned output
\* carries a coordinate, which is the tag of the window its magnitude was
\* computed from; coord_fifo is empty once the three flags are false.
C26_CoordFifoFollowsFlags ==
    /\ Len(sim.coord_fifo) = FlagsSet(sim)
    /\ Len(sim.coord_fifo) <= 3
    /\ FlagsSet(sim) = 0 => sim.coord_fifo = <<>>
    /\ Len(simHist.returned) + Len(sim.coord_fifo) = Len(simHist.tagged)
    /\ \A i \in 1..Len(simHist.returned) :
          LET o == simHist.returned[i]
              w == simHist.tagged[i]
          IN  /\ o.coord # None
              /\ o.coord = w.coord
              /\ o.value = pack_edge_to_rgb565(
                               gradients_to_edge_mag(sobel_gx_gy(w.win)[1],
                                                     sobel_gx_gy(w.win)[2]))

C26_Witness ==
    /\ Len(sim.coord_fifo) = 3
    /\ sim.window_valid /\ sim.sobel_valid /\ sim.edge_valid
    /\ Len(simHist.returned) >= 2
    /\ simHist.returned[1].value # simHist.returned[2].value

(***************************************************************************)
(* Two simulators given the same frame: sim with the step calls of         *)
(* generate_vectors (RowIdleSteps idle steps after every row), sim2 with   *)
(* the pixels back to back and idle steps only after the last pixel.       *)
(* gen.out and gen.out2 are the outputs each has returned.                 *)
(***************************************************************************)
\* Number of step calls of the back-to-back run.
PackedSteps == (height * width) + DrainSteps

\* The (href, rgb_pixel) arguments of call number n (from 0) of that run.
PackedStimulus(n) ==
    IF n < height * width
    THEN <<TRUE, frame[n + 1]>>
    ELSE <<FALSE, frame[height * width]>>

IdleInit ==
    /\ width \in 1..MaxWidth
    /\ height \in 1..MaxHeight
    /\ seed \in 0..MaxSeed
    /\ frame = MakeFrame(width, height, seed)
    /\ sim = SimNew(width, FALSE)
    /\ sim2 = SimNew(width, FALSE)
    /\ gen = [pc |-> "run", n |-> 0, out |-> <<>>, out2 |-> <<>>]
    /\ simHist = [pc |-> "off"]
    /\ opt = [pc |-> "off"]
    /\ optHist = [pc |-> "off"]

\* Call n of both runs.
IdleBothStep ==
    /\ gen.pc = "run"
    /\ gen.n < PackedSteps
    /\ LET st == Stimulus(gen.n)
           st2 == PackedStimulus(gen.n)
           r1 == step(sim, st[1], st[2])
           r2 == step(sim2, st2[1], st2[2])
       IN  /\ sim' = r1.self
           /\ sim2' = r2.self
           /\ gen' = [ gen EXCEPT
                         !.n = gen.n + 1,
                         !.out = gen.out \o r1.outputs,
                         !.out2 = gen.out2 \o r2.outputs ]
    /\ UNCHANGED <<width, height, seed, frame, opt, optHist, simHist>>

\* Call n of the run with row gaps, the back-to-back run being over.
IdleGappedStep ==
    /\ gen.pc = "run"
    /\ gen.n >= PackedSteps
    /\ LET st == Stimulus(gen.n)
           r1 == step(sim, st[1], st[2])
       IN  /\ sim' = r1.self
           /\ gen' = [ gen EXCEPT
                         !.n = gen.n + 1,
                         !.out = gen.out \o r1.outputs,
                         !.pc = IF gen.n + 1 = RunSteps THEN "done" ELSE "run" ]
    /\ UNCHANGED <<width, height, seed, frame, opt, optHist, simHist, sim2>>

IdleNext == IdleBothStep \/ IdleGappedStep

SpecIdle == IdleInit /\ [][IdleNext]_vars

\* C27: the output words for a frame do not depend on idle steps between the
\* pixels: the run with idle steps after every row and the back-to-back run
\* return the same sequence of words.
C27_IdleStepsDoNotChangeWords ==
    gen.pc = "done" => Values(gen.out) = Values(gen.out2)

(***************************************************************************)
(* The array reference of compare_sobel_output.py against the expected     *)
(* stream of the class-based generate_vectors (SpecSim).                   *)
(***************************************************************************)
\* C28: for a single frame with height >= 3 and width >= 2 the words
\* magnitude_to_rgb565(sobel_reference(gray)) in raster order over the valid
\* region equal, word for word, the expected stream generate_vectors
\* produces for the frame.
C28_ReferenceEqualsModel ==
    AfterDrain /\ height >= 3 /\ width >= 2 =>
        gen.expected = ReferenceWords(frame, 1, height, width)

\* C29: when the actual stream equals the expected stream word for word
\* (mismatch count 0), the magnitude statistics report no error:
\* max_abs_diff = 0, mean_abs_diff = 0, mse = 0 and an infinite PSNR.
C29_PerfectMatchReportsNoError ==
    gen.compared # 0 - 1 /\ gen.mismatches = 0 =>
        /\ gen.max_abs_diff = 0
        /\ gen.sum_abs_diff = 0
        /\ gen.sum_sq_diff = 0
        /\ gen.psnr = "inf"

====
